---- MODULE Spec2Model ----
(***************************************************************************)
(* Model of the fixed-ratio liquidity pool of src/liquiditypool_defi.py    *)
(* and of the stokvel simulation of src/stokvel_algorand.py.               *)
(*                                                                         *)
(* The pool ledger (pool_ALGO, pool_UCTZAR, total_lp_tokens, lp_tokens) is *)
(* kept by the program in Python floats.  Floats are modelled as binary    *)
(* floating-point numbers m * 2^e with a significand of Precision bits and *)
(* round-to-nearest-even after every operation, as IEEE-754 binary64 does  *)
(* with 53 bits; the significand is narrower here because the model        *)
(* checker's integers are 32 bits wide.                                    *)
(***************************************************************************)
EXTENDS Integers, Sequences, FiniteSets, TLC

(***************************************************************************)
(* Bounds of the model.                                                    *)
(***************************************************************************)
Precision == 8
MaxOps == 3

\* the longest list handed to process_atomic_transactions on its own
MaxGroup == 2

\* the passes of the loop of run_payment_simulation that are followed
MaxDays == 150

\* the same for a year and the month after it
MaxYearDays == 390

(***************************************************************************)
(* Binary floating point.                                                  *)
(***************************************************************************)
RECURSIVE Pow2Rec(_)
Pow2Rec(n) == IF n <= 0 THEN 1 ELSE 2 * Pow2Rec(n - 1)

Pow2Table == [i \in 0..30 |-> Pow2Rec(i)]

Pow2(n) == Pow2Table[n]

RECURSIVE BitLen(_)
BitLen(a) == IF a <= 0 THEN 0 ELSE 1 + BitLen(a \div 2)

Abs(n) == IF n < 0 THEN 0 - n ELSE n

Sgn(n) == IF n < 0 THEN 0 - 1 ELSE IF n > 0 THEN 1 ELSE 0

FZero == [m |-> 0, e |-> 0]

\* a significand a of more than Precision bits is cut by k bits, p = 2^k
RoundCut(sg, a, e, k, p) ==
    LET q  == a \div p
        r  == 2 * (a % p)
        up == IF r > p \/ (r = p /\ q % 2 = 1) THEN q + 1 ELSE q
    IN  IF up = Pow2(Precision)
        THEN [m |-> sg * Pow2(Precision - 1), e |-> e + k + 1]
        ELSE [m |-> sg * up, e |-> e + k]

NormBits(sg, a, e, k) ==
    IF k <= 0 THEN [m |-> sg * a * Pow2(0 - k), e |-> e + k]
    ELSE RoundCut(sg, a, e, k, Pow2(k))

NormAbs(sg, a, e) == NormBits(sg, a, e, BitLen(a) - Precision)

\* the float nearest to n * 2^e (ties to the even significand)
Norm(n, e) == IF n = 0 THEN FZero ELSE NormAbs(Sgn(n), Abs(n), e)

FNeg(x) == [m |-> 0 - x.m, e |-> x.e]

FAddOrdered(hi, lo, d) ==
    IF d > Precision + 1 THEN hi ELSE Norm(hi.m * Pow2(d) + lo.m, lo.e)

FAdd(x, y) ==
    IF x.m = 0 THEN y
    ELSE IF y.m = 0 THEN x
    ELSE IF x.e >= y.e THEN FAddOrdered(x, y, x.e - y.e)
    ELSE FAddOrdered(y, x, y.e - x.e)

FSub(x, y) == FAdd(x, FNeg(y))

FMul(x, y) == Norm(x.m * y.m, x.e + y.e)

\* n quotient bits of r / d by long division, 0 <= r < d; the result is
\* <<quotient, remainder>>
RECURSIVE DivBits(_, _, _, _)
DivBits(q, r, d, n) ==
    IF n = 0 THEN <<q, r>>
    ELSE IF 2 * r >= d THEN DivBits(2 * q + 1, 2 * r - d, d, n - 1)
         ELSE DivBits(2 * q, 2 * r, d, n - 1)

\* a / d with a and d of the same bit length: Precision + 2 quotient bits and
\* a last bit that says whether a remainder is left (the sticky bit)
RoundQuot(sg, qr, e) == NormAbs(sg, 2 * qr[1] + (IF qr[2] # 0 THEN 1 ELSE 0), e)

RoundScaled(sg, a, d, e) ==
    RoundQuot(sg, DivBits(a \div d, a % d, d, Precision + 2), e - Precision - 3)

RoundLens(sg, a, den, e, la, ld) ==
    IF ld > la THEN RoundScaled(sg, a * Pow2(ld - la), den, e - (ld - la))
    ELSE RoundScaled(sg, a, den * Pow2(la - ld), e + (la - ld))

\* the float nearest to (num / den) * 2^e, for integers num and den > 0
RoundRat(num, den, e) ==
    IF num = 0 THEN FZero
    ELSE RoundLens(Sgn(num), Abs(num), den, e, BitLen(Abs(num)), BitLen(den))

FDiv(x, y) == RoundRat(Sgn(y.m) * x.m, Abs(y.m), x.e - y.e)

FLt(x, y) == FSub(x, y).m < 0

FLe(x, y) == FSub(x, y).m <= 0

\* Python's int(x): truncation towards zero
FInt(x) ==
    IF x.e >= 0 THEN x.m * Pow2(x.e)
    ELSE Sgn(x.m) * (Abs(x.m) \div Pow2(0 - x.e))

\* the float a decimal literal num/den denotes
Lit(num, den) == RoundRat(num, den, 0)

(***************************************************************************)
(* Program constants and the inputs the operations are tried with.         *)
(***************************************************************************)
algo_conversion == Lit(1, 1000000)

FEE_RATE == Lit(3, 1000)

SettlementOverhead == Lit(1, 1000)

MicroPerAlgo == Lit(1000000, 1)

CentsPerUctzar == Lit(100, 1)

Half == Lit(5, 10)

Two == Lit(2, 1)

pool_account == "pool"

Participants == {"p1", "p2"}

\* the amounts a trade is called with: -0.1, 0, 0.1, 0.2
AmountLits == {<<0 - 1, 10>>, <<0, 1>>, <<1, 10>>, <<2, 10>>}

Amounts == {Lit(l[1], l[2]) : l \in AmountLits}

\* the (amount_algo, amount_uctzar) pairs add_liquidity is called with
DepositLits == {<<<<5, 10>>, <<1, 1>>>>, <<<<1, 10>>, <<2, 10>>>>, <<<<2, 10>>, <<1, 10>>>>,
                <<<<0, 1>>, <<1, 10>>>>, <<<<0 - 1, 10>>, <<1, 10>>>>,
                <<<<1, 10>>, <<0 - 1, 10>>>>}

Deposits == {<<Lit(d[1][1], d[1][2]), Lit(d[2][1], d[2][2])>> : d \in DepositLits}

\* account_info()["amount"] of a caller, in microAlgos
MicroBalances == {0, 5000000}

VARIABLES
    pool_ALGO,          \* LiquidityPool.pool_ALGO
    pool_UCTZAR,        \* LiquidityPool.pool_UCTZAR
    total_lp_tokens,    \* LiquidityPool.total_lp_tokens
    lp_tokens,          \* LiquidityPool.lp_tokens, a dict keyed by address
    pc,                 \* where the current call stands
    op,                 \* the current call: arguments, locals, legs, error
    gw,                 \* what the ledger gateway has said of the call's group
    chain,              \* units the finalized groups moved into the pool account
    nOps,               \* calls made so far
    waiting,            \* a call another thread is blocked in, with the ledger it read
    sim,                \* the locals of run_payment_simulation
    iteration,          \* what the last pass of its loop did
    paid_out            \* accounts the external ledger confirmed a payout to

ledger == <<pool_ALGO, pool_UCTZAR, total_lp_tokens, lp_tokens>>

vars == <<pool_ALGO, pool_UCTZAR, total_lp_tokens, lp_tokens, pc, op, gw, chain, nOps,
         waiting, sim, iteration, paid_out>>

NoOp == [kind |-> "none", who |-> pool_account, amount |-> FZero, amount2 |-> FZero,
         balance |-> FZero, burned |-> FZero, x |-> FZero, y |-> FZero, t |-> FZero,
         legs |-> <<>>, signed |-> <<>>, err |-> "none"]

\* no call is blocked in another thread
NoWaiting == [call |-> NoOp, read |-> <<FZero, FZero, FZero, [a \in {} |-> FZero]>>]

\* dict.get(key, 0)
Get(d, k) == IF k \in DOMAIN d THEN d[k] ELSE FZero

\* d[key] = value
Put(d, k, v) == [a \in (DOMAIN d) \cup {k} |-> IF a = k THEN v ELSE d[a]]

\* del d[key]
Del(d, k) == [a \in (DOMAIN d) \ {k} |-> d[a]]

\* Account.check_balance
check_balance(micro) == FMul(Norm(micro, 0), algo_conversion)

\* PaymentTxn / AssetTransferTxn
Txn(asset, sender, receiver, amt) ==
    [asset |-> asset, sender |-> sender, receiver |-> receiver, amt |-> amt]

\* the group id is computed over the ordered list of transactions; each
\* transaction is then paired with the account at the same position and signed
\* with that account's key
\* a variant that signs every transaction with the key of the first account
process_atomic_transactions_with_first_key(transactions, accounts) ==
    LET n == IF Len(transactions) < Len(accounts) THEN Len(transactions) ELSE Len(accounts)
    IN  [i \in 1..n |-> [txn |-> transactions[i], group |-> transactions, key |-> accounts[1]]]
process_atomic_transactions(transactions, accounts) ==
    LET n == IF Len(transactions) < Len(accounts) THEN Len(transactions) ELSE Len(accounts)
    IN  [i \in 1..n |-> [txn |-> transactions[i], group |-> transactions, key |-> accounts[i]]]

\* net units of an asset a group moves into the pool account
RECURSIVE NetIn(_, _)
NetIn(legs, asset) ==
    IF legs = <<>> THEN 0
    ELSE LET l == Head(legs)
             v == IF l.asset # asset \/ l.sender = l.receiver THEN 0
                  ELSE IF l.receiver = pool_account THEN l.amt
                  ELSE IF l.sender = pool_account THEN 0 - l.amt
                  ELSE 0
         IN  v + NetIn(Tail(legs), asset)

Settled(legs) ==
    [algo |-> chain.algo + NetIn(legs, "ALGO"), uctzar |-> chain.uctzar + NetIn(legs, "UCTZAR")]

(***************************************************************************)
(* The stokvel of src/stokvel_algorand.py: main calls                      *)
(* run_payment_simulation with five accounts, their multisig account and   *)
(* a contribution of 0.5 ALGO.                                             *)
(***************************************************************************)
stokvel_accounts == <<"a1", "a2", "a3", "a4", "a5">>

AccountSet == {stokvel_accounts[k] : k \in 1..Len(stokvel_accounts)}

multisig_account == "stokvel"

\* main passes amount=0.5
amount == Lit(5, 10)

\* the part of sum_ammount a payout takes
PayoutShare == Lit(6, 10)

\* Python's round(num / den) for integers num >= 0, den > 0: ties go to even
round_half_even(num, den) ==
    LET q == num \div den
        r == 2 * (num % den)
    IN  IF r > den \/ (r = den /\ q % 2 = 1) THEN q + 1 ELSE q

\* round(0.8 * len(accounts))
threshold == round_half_even(8 * Len(stokvel_accounts), 10)

\* the default of --time
DefaultTime == 10

\* the values of --time main lets through to run_payment_simulation
ContributionDays == {t \in 0..31 : ~(t >= 30 \/ t <= 0)}

\* the locals of run_payment_simulation before the first pass of its loop
StartOfSimulation(time_t) ==
    [time_t |-> time_t, i |-> 1, sum_ammount |-> FZero, count_months |-> 1,
     successful_payments |-> {}, stop_simulation |-> FALSE]

\* no call of MultiSigTransaction.pay
NoPay == [called |-> FALSE, receiver |-> "none", amount |-> FZero, balance |-> FZero,
          txn |-> <<>>, signers |-> <<>>, gw |-> "none", err |-> "none",
          raised |-> "none"]

\* no pass of the loop yet; n counts the passes
NoIteration ==
    [n |-> 0, i |-> 0, count_months |-> 0, contributions |-> <<>>,
     payout_account |-> "none", prompted |-> FALSE, signature_ammounts |-> 0,
     pay |-> NoPay, asked_to_continue |-> FALSE, said_n |-> FALSE]

Init ==
    /\ pool_ALGO = FZero
    /\ pool_UCTZAR = FZero
    /\ total_lp_tokens = FZero
    /\ lp_tokens = [a \in {} |-> FZero]
    /\ pc = "Idle"
    /\ op = NoOp
    /\ gw = "none"
    /\ chain = [algo |-> 0, uctzar |-> 0]
    /\ nOps = 0
    /\ waiting = NoWaiting
    /\ sim = StartOfSimulation(DefaultTime)
    /\ iteration = NoIteration
    /\ paid_out = {}

\* the refusals the code prints before a bare return
PrintedRefusals == {"InsufficientBalance", "NoPosition", "NoHoldings", "NotEnoughLiquidity"}

\* what a call hands to its caller: the methods have no return value, so a
\* call that ran to its end and a call that printed a refusal and returned
\* both give None; an exception reaches the caller as it was raised
caller_gets(c) == IF c.err = "none" \/ c.err \in PrintedRefusals THEN "None" ELSE c.err
CanCall == pc \in {"Idle", "Committed", "Aborted"} /\ nOps < MaxOps

\* the call ends before anything is sent: a printed refusal or an exception
Refuse(call, err) ==
    /\ pc' = "Aborted"
    /\ op' = [call EXCEPT !.err = err]
    /\ gw' = "none"
    /\ nOps' = nOps + 1
    /\ UNCHANGED <<pool_ALGO, pool_UCTZAR, total_lp_tokens, lp_tokens, chain, waiting,
                   sim, iteration, paid_out>>

\* send_transactions: the node takes the group and returns its id, or raises
Send(call, sent) ==
    /\ pc' = IF sent THEN "Submitted" ELSE "Aborted"
    /\ op' = [call EXCEPT !.err = IF sent THEN "none" ELSE "SendFailed"]
    /\ gw' = IF sent THEN "pending" ELSE "rejected"
    /\ nOps' = nOps + 1
    /\ UNCHANGED <<pool_ALGO, pool_UCTZAR, total_lp_tokens, lp_tokens, chain, waiting,
                   sim, iteration, paid_out>>

(***************************************************************************)
(* LiquidityPool.add_liquidity                                             *)
(***************************************************************************)
\* a variant that forgets the settlement overhead in the balance check
add_liquidity_locals_without_overhead(amount_algo, amount_uctzar, micro) ==
    [balance |-> check_balance(micro),
     insufficient |-> FLt(check_balance(micro), amount_algo),
     converted_ammount |-> FInt(FDiv(amount_algo, algo_conversion)),
     amt_2 |-> FInt(FMul(amount_uctzar, CentsPerUctzar))]

\* what the call computes from its arguments and the provider's balance
add_liquidity_locals(amount_algo, amount_uctzar, micro) ==
    [balance |-> check_balance(micro),
     insufficient |-> FLt(check_balance(micro), FAdd(amount_algo, SettlementOverhead)),
     converted_ammount |-> FInt(FDiv(amount_algo, algo_conversion)),
     amt_2 |-> FInt(FMul(amount_uctzar, CentsPerUctzar))]

AddLiquidityLocals ==
    [d \in Deposits, micro \in MicroBalances |-> add_liquidity_locals(d[1], d[2], micro)]

\* the call up to send_transactions; burned is the number of LP tokens the
\* provider's remove_liquidity burned when the call deposits what that
\* removal has just paid out, and 0 for every other call
add_liquidity_call(provider, amount_algo, amount_uctzar, loc, burned, sent) ==
    LET call == [NoOp EXCEPT !.kind = "add_liquidity", !.who = provider,
                             !.amount = amount_algo, !.amount2 = amount_uctzar,
                             !.balance = loc.balance, !.burned = burned]
        txn_1 == Txn("ALGO", provider, pool_account, loc.converted_ammount)
        txn_2 == Txn("UCTZAR", provider, pool_account, loc.amt_2)
        liquidity_txns == <<txn_1, txn_2>>
        signed_txns == process_atomic_transactions(liquidity_txns, <<provider, provider>>)
    IN  IF loc.insufficient
        THEN Refuse(call, "InsufficientBalance")
        ELSE IF loc.converted_ammount < 0
        THEN Refuse(call, "WrongAmountType")
        ELSE IF loc.amt_2 < 0
        THEN Refuse([call EXCEPT !.legs = <<txn_1>>], "WrongAmountType")
        ELSE Send([call EXCEPT !.legs = liquidity_txns, !.signed = signed_txns], sent)

add_liquidity(provider, amount_algo, amount_uctzar, micro, sent) ==
    /\ CanCall
    /\ add_liquidity_call(provider, amount_algo, amount_uctzar,
                          AddLiquidityLocals[<<amount_algo, amount_uctzar>>, micro],
                          FZero, sent)

\* add_liquidity called by the provider whose remove_liquidity has just been
\* confirmed, with the two amounts that removal paid out
redeposit(micro, sent) ==
    /\ pc = "Committed"
    /\ op.kind = "remove_liquidity"
    /\ nOps <= MaxOps
    /\ add_liquidity_call(op.who, op.x, op.y, add_liquidity_locals(op.x, op.y, micro),
                          op.t, sent)

\* a variant that mints LP tokens for the ALGO side of the deposit only
add_liquidity_commit_algo_only ==
    LET lp_token_amount == op.amount
    IN  /\ pc = "Submitted"
        /\ op.kind = "add_liquidity"
        /\ pool_ALGO' = FAdd(pool_ALGO, op.amount)
        /\ pool_UCTZAR' = FAdd(pool_UCTZAR, op.amount2)
        /\ total_lp_tokens' = FAdd(total_lp_tokens, lp_token_amount)
        /\ lp_tokens' = Put(lp_tokens, op.who, FAdd(Get(lp_tokens, op.who), lp_token_amount))
        /\ pc' = "Committed"
        /\ gw' = "finalized"
        /\ chain' = Settled(op.legs)
        /\ UNCHANGED <<op, nOps, waiting, sim, iteration, paid_out>>

\* wait_for_confirmation has returned: the balances and LP tokens are updated
add_liquidity_commit ==
    LET lp_token_amount == FAdd(op.amount, op.amount2)
    IN  /\ pc = "Submitted"
        /\ op.kind = "add_liquidity"
        /\ pool_ALGO' = FAdd(pool_ALGO, op.amount)
        /\ pool_UCTZAR' = FAdd(pool_UCTZAR, op.amount2)
        /\ total_lp_tokens' = FAdd(total_lp_tokens, lp_token_amount)
        /\ lp_tokens' = Put(lp_tokens, op.who, FAdd(Get(lp_tokens, op.who), lp_token_amount))
        /\ pc' = "Committed"
        /\ gw' = "finalized"
        /\ chain' = Settled(op.legs)
        /\ UNCHANGED <<op, nOps, waiting, sim, iteration, paid_out>>

(***************************************************************************)
(* LiquidityPool.trade_algo_uctzar                                         *)
(***************************************************************************)
\* the fee, the net amount, the payout and the legs' amounts
trade_algo_uctzar_locals(amount_algo) ==
    LET trade_fee == FMul(amount_algo, FEE_RATE)
        net_amount_algo == FSub(amount_algo, trade_fee)
        amount_uctzar == FMul(net_amount_algo, Two)
    IN  [trade_fee |-> trade_fee,
         net_amount_algo |-> net_amount_algo,
         amount_uctzar |-> amount_uctzar,
         net_converted_amount |-> FInt(FDiv(net_amount_algo, algo_conversion)),
         amt_2 |-> FInt(FMul(amount_uctzar, CentsPerUctzar))]

TradeAlgoUctzarLocals == [a \in Amounts |-> trade_algo_uctzar_locals(a)]

trade_algo_uctzar(trader, amount_algo, sent) ==
    LET loc == TradeAlgoUctzarLocals[amount_algo]
        txn_1 == Txn("ALGO", trader, pool_account, loc.net_converted_amount)
        txn_2 == Txn("UCTZAR", pool_account, trader, loc.amt_2)
        signed_txns == process_atomic_transactions(<<txn_1, txn_2>>, <<trader, pool_account>>)
        call == [NoOp EXCEPT !.kind = "trade_algo_uctzar", !.who = trader,
                             !.amount = amount_algo, !.x = loc.net_amount_algo,
                             !.y = loc.amount_uctzar]
    IN  /\ CanCall
        /\ IF loc.net_converted_amount < 0
           THEN Refuse(call, "WrongAmountType")
           ELSE IF loc.amt_2 < 0
           THEN Refuse([call EXCEPT !.legs = <<txn_1>>], "WrongAmountType")
           ELSE Send([call EXCEPT !.legs = <<txn_1, txn_2>>, !.signed = signed_txns], sent)

\* a variant that pays the output without crediting the input reserve
trade_algo_uctzar_commit_input_not_credited ==
    LET lp_token_amount == FAdd(op.x, op.y)
    IN  /\ pc = "Submitted"
        /\ op.kind = "trade_algo_uctzar"
        /\ pool_UCTZAR' = FSub(pool_UCTZAR, op.y)
        /\ total_lp_tokens' = FAdd(total_lp_tokens, lp_token_amount)
        /\ lp_tokens' = Put(lp_tokens, op.who, FAdd(Get(lp_tokens, op.who), lp_token_amount))
        /\ pc' = "Committed"
        /\ gw' = "finalized"
        /\ chain' = Settled(op.legs)
        /\ UNCHANGED <<pool_ALGO, op, nOps, waiting, sim, iteration, paid_out>>
trade_algo_uctzar_commit ==
    LET lp_token_amount == FAdd(op.x, op.y)
    IN  /\ pc = "Submitted"
        /\ op.kind = "trade_algo_uctzar"
        /\ pool_ALGO' = FAdd(pool_ALGO, op.x)
        /\ pool_UCTZAR' = FSub(pool_UCTZAR, op.y)
        /\ total_lp_tokens' = FAdd(total_lp_tokens, lp_token_amount)
        /\ lp_tokens' = Put(lp_tokens, op.who, FAdd(Get(lp_tokens, op.who), lp_token_amount))
        /\ pc' = "Committed"
        /\ gw' = "finalized"
        /\ chain' = Settled(op.legs)
        /\ UNCHANGED <<op, nOps, waiting, sim, iteration, paid_out>>

(***************************************************************************)
(* LiquidityPool.trade_uctzar_algo                                         *)
(***************************************************************************)
\* a variant that prices UCTZAR at 2 ALGO instead of 0.5 ALGO
trade_uctzar_algo_locals_doubling(amount_uctzar) ==
    LET trade_fee == FMul(amount_uctzar, FEE_RATE)
        net_amount_uctzar == FSub(amount_uctzar, trade_fee)
        amount_algo == FMul(net_amount_uctzar, Two)
    IN  [trade_fee |-> trade_fee,
         net_amount_uctzar |-> net_amount_uctzar,
         amount_algo |-> amount_algo,
         net_converted_amount |-> FInt(FMul(net_amount_uctzar, CentsPerUctzar)),
         amt_2 |-> FInt(FDiv(amount_algo, algo_conversion))]
trade_uctzar_algo_locals(amount_uctzar) ==
    LET trade_fee == FMul(amount_uctzar, FEE_RATE)
        net_amount_uctzar == FSub(amount_uctzar, trade_fee)
        amount_algo == FDiv(net_amount_uctzar, Two)
    IN  [trade_fee |-> trade_fee,
         net_amount_uctzar |-> net_amount_uctzar,
         amount_algo |-> amount_algo,
         net_converted_amount |-> FInt(FMul(net_amount_uctzar, CentsPerUctzar)),
         amt_2 |-> FInt(FDiv(amount_algo, algo_conversion))]

TradeUctzarAlgoLocals == [a \in Amounts |-> trade_uctzar_algo_locals(a)]

trade_uctzar_algo(trader, amount_uctzar, sent) ==
    LET loc == TradeUctzarAlgoLocals[amount_uctzar]
        txn_1 == Txn("UCTZAR", trader, pool_account, loc.net_converted_amount)
        txn_2 == Txn("ALGO", pool_account, trader, loc.amt_2)
        signed_txns == process_atomic_transactions(<<txn_1, txn_2>>, <<trader, pool_account>>)
        call == [NoOp EXCEPT !.kind = "trade_uctzar_algo", !.who = trader,
                             !.amount = amount_uctzar, !.x = loc.amount_algo,
                             !.y = loc.net_amount_uctzar]
    IN  /\ CanCall
        /\ IF loc.net_converted_amount < 0
           THEN Refuse(call, "WrongAmountType")
           ELSE IF loc.amt_2 < 0
           THEN Refuse([call EXCEPT !.legs = <<txn_1>>], "WrongAmountType")
           ELSE Send([call EXCEPT !.legs = <<txn_1, txn_2>>, !.signed = signed_txns], sent)

\* a variant that mints no LP tokens for the trader
trade_uctzar_algo_commit_without_minting ==
    /\ pc = "Submitted"
    /\ op.kind = "trade_uctzar_algo"
    /\ pool_ALGO' = FSub(pool_ALGO, op.x)
    /\ pool_UCTZAR' = FAdd(pool_UCTZAR, op.y)
    /\ pc' = "Committed"
    /\ gw' = "finalized"
    /\ chain' = Settled(op.legs)
    /\ UNCHANGED <<total_lp_tokens, lp_tokens, op, nOps, waiting, sim, iteration, paid_out>>
trade_uctzar_algo_commit ==
    LET lp_token_amount == FAdd(op.y, op.x)
    IN  /\ pc = "Submitted"
        /\ op.kind = "trade_uctzar_algo"
        /\ pool_ALGO' = FSub(pool_ALGO, op.x)
        /\ pool_UCTZAR' = FAdd(pool_UCTZAR, op.y)
        /\ total_lp_tokens' = FAdd(total_lp_tokens, lp_token_amount)
        /\ lp_tokens' = Put(lp_tokens, op.who, FAdd(Get(lp_tokens, op.who), lp_token_amount))
        /\ pc' = "Committed"
        /\ gw' = "finalized"
        /\ chain' = Settled(op.legs)
        /\ UNCHANGED <<op, nOps, waiting, sim, iteration, paid_out>>

(***************************************************************************)
(* LiquidityPool.remove_liquidity                                          *)
(***************************************************************************)
remove_liquidity(provider, sent) ==
    LET call == [NoOp EXCEPT !.kind = "remove_liquidity", !.who = provider]
        tokens == Get(lp_tokens, provider)
        provider_share == FDiv(tokens, total_lp_tokens)
        algo_share == FMul(provider_share, pool_ALGO)
        uctzar_share == FMul(provider_share, pool_UCTZAR)
        amt_1 == FInt(FMul(algo_share, MicroPerAlgo))
        txn_1 == Txn("ALGO", pool_account, provider, amt_1)
        amt_2 == FInt(FMul(uctzar_share, CentsPerUctzar))
        txn_2 == Txn("UCTZAR", pool_account, provider, amt_2)
        signed_txns == process_atomic_transactions(<<txn_1, txn_2>>,
                                                   <<pool_account, pool_account>>)
        built == [call EXCEPT !.x = algo_share, !.y = uctzar_share, !.t = tokens]
    IN  /\ CanCall
        /\ IF provider \notin DOMAIN lp_tokens
           THEN Refuse(call, "KeyError")
           ELSE IF tokens = FZero
           THEN Refuse(call, "NoPosition")
           ELSE IF total_lp_tokens = FZero
           THEN Refuse(call, "ZeroDivisionError")
           ELSE IF amt_1 < 0
           THEN Refuse(built, "WrongAmountType")
           ELSE IF amt_2 < 0
           THEN Refuse([built EXCEPT !.legs = <<txn_1>>], "WrongAmountType")
           ELSE Send([built EXCEPT !.legs = <<txn_1, txn_2>>, !.signed = signed_txns], sent)

\* a variant that keeps the provider's entry, set to 0, instead of deleting it
remove_liquidity_commit_keeps_entry ==
    /\ pc = "Submitted"
    /\ op.kind = "remove_liquidity"
    /\ pool_ALGO' = FSub(pool_ALGO, op.x)
    /\ pool_UCTZAR' = FSub(pool_UCTZAR, op.y)
    /\ total_lp_tokens' = FSub(total_lp_tokens, op.t)
    /\ lp_tokens' = Put(lp_tokens, op.who, FZero)
    /\ pc' = "Committed"
    /\ gw' = "finalized"
    /\ chain' = Settled(op.legs)
    /\ UNCHANGED <<op, nOps, waiting, sim, iteration, paid_out>>
\* a variant that burns the provider's tokens but leaves them in the total
remove_liquidity_commit_total_untouched ==
    /\ pc = "Submitted"
    /\ op.kind = "remove_liquidity"
    /\ pool_ALGO' = FSub(pool_ALGO, op.x)
    /\ pool_UCTZAR' = FSub(pool_UCTZAR, op.y)
    /\ lp_tokens' = Del(lp_tokens, op.who)
    /\ pc' = "Committed"
    /\ gw' = "finalized"
    /\ chain' = Settled(op.legs)
    /\ UNCHANGED <<total_lp_tokens, op, nOps, waiting, sim, iteration, paid_out>>
remove_liquidity_commit ==
    /\ pc = "Submitted"
    /\ op.kind = "remove_liquidity"
    /\ pool_ALGO' = FSub(pool_ALGO, op.x)
    /\ pool_UCTZAR' = FSub(pool_UCTZAR, op.y)
    /\ total_lp_tokens' = FSub(total_lp_tokens, op.t)
    /\ lp_tokens' = Del(lp_tokens, op.who)
    /\ pc' = "Committed"
    /\ gw' = "finalized"
    /\ chain' = Settled(op.legs)
    /\ UNCHANGED <<op, nOps, waiting, sim, iteration, paid_out>>

(***************************************************************************)
(* wait_for_confirmation raises: the group was rejected or the wait timed  *)
(* out, and the exception leaves the method before the ledger update.      *)
(***************************************************************************)
\* a variant that has credited the LP tokens before the confirmation arrived
settlement_failed_after_update(reason) ==
    /\ pc = "Submitted"
    /\ pc' = "Aborted"
    /\ op' = [op EXCEPT !.err = "ConfirmationFailed"]
    /\ gw' = reason
    /\ total_lp_tokens' = FAdd(total_lp_tokens, FAdd(op.amount, op.amount2))
    /\ UNCHANGED <<pool_ALGO, pool_UCTZAR, lp_tokens, chain, nOps, waiting,
                   sim, iteration, paid_out>>

\* a variant that sends the group again when the confirmation fails
settlement_failed_then_resubmitted(reason) ==
    /\ pc = "Submitted"
    /\ pc' = "Submitted"
    /\ op' = [op EXCEPT !.err = "Resubmitted"]
    /\ gw' = "pending"
    /\ UNCHANGED <<pool_ALGO, pool_UCTZAR, total_lp_tokens, lp_tokens, chain, nOps, waiting,
                   sim, iteration, paid_out>>
settlement_failed(reason) ==
    /\ pc = "Submitted"
    /\ pc' = "Aborted"
    /\ op' = [op EXCEPT !.err = "ConfirmationFailed"]
    /\ gw' = reason
    /\ UNCHANGED <<pool_ALGO, pool_UCTZAR, total_lp_tokens, lp_tokens, chain, nOps, waiting,
                   sim, iteration, paid_out>>

(***************************************************************************)
(* opt_out_asset: the group is sent and the pool's state is updated right  *)
(* after send_transactions returns; the function does not wait for the     *)
(* group's confirmation.                                                   *)
(***************************************************************************)
\* a variant without the check of the pool's ALGO reserve
opt_out_asset_without_liquidity_check(trader, sent) ==
    LET call == [NoOp EXCEPT !.kind = "opt_out_asset", !.who = trader]
        uctzar_balance == Get(lp_tokens, trader)
        algo_amount == FMul(uctzar_balance, Half)
        payout_txn == Txn("ALGO", pool_account, trader, FInt(FMul(algo_amount, MicroPerAlgo)))
        opt_out_txn == Txn("UCTZAR", trader, trader, 0)
        signed_txns == process_atomic_transactions(<<payout_txn, opt_out_txn>>,
                                                   <<pool_account, trader>>)
        built == [call EXCEPT !.x = algo_amount, !.t = uctzar_balance,
                              !.legs = <<payout_txn, opt_out_txn>>, !.signed = signed_txns]
    IN  /\ CanCall
        /\ IF uctzar_balance = FZero
           THEN Refuse(call, "NoHoldings")
           ELSE IF ~sent
           THEN Send(built, FALSE)
           ELSE /\ pool_ALGO' = FSub(pool_ALGO, algo_amount)
                /\ total_lp_tokens' = FSub(total_lp_tokens, uctzar_balance)
                /\ lp_tokens' = Del(lp_tokens, trader)
                /\ pc' = "Committed"
                /\ op' = built
                /\ gw' = "pending"
                /\ nOps' = nOps + 1
                /\ UNCHANGED <<pool_UCTZAR, chain, waiting, sim, iteration, paid_out>>

\* a variant that also takes the UCTZAR the LP tokens stand for from the pool
opt_out_asset_taking_uctzar(trader, sent) ==
    LET call == [NoOp EXCEPT !.kind = "opt_out_asset", !.who = trader]
        uctzar_balance == Get(lp_tokens, trader)
        algo_amount == FMul(uctzar_balance, Half)
        payout_txn == Txn("ALGO", pool_account, trader, FInt(FMul(algo_amount, MicroPerAlgo)))
        opt_out_txn == Txn("UCTZAR", trader, trader, 0)
        signed_txns == process_atomic_transactions(<<payout_txn, opt_out_txn>>,
                                                   <<pool_account, trader>>)
        built == [call EXCEPT !.x = algo_amount, !.t = uctzar_balance,
                              !.legs = <<payout_txn, opt_out_txn>>, !.signed = signed_txns]
    IN  /\ CanCall
        /\ IF uctzar_balance = FZero
           THEN Refuse(call, "NoHoldings")
           ELSE IF FLt(pool_ALGO, algo_amount)
           THEN Refuse(call, "NotEnoughLiquidity")
           ELSE IF ~sent
           THEN Send(built, FALSE)
           ELSE /\ pool_ALGO' = FSub(pool_ALGO, algo_amount)
                /\ pool_UCTZAR' = FSub(pool_UCTZAR, uctzar_balance)
                /\ total_lp_tokens' = FSub(total_lp_tokens, uctzar_balance)
                /\ lp_tokens' = Del(lp_tokens, trader)
                /\ pc' = "Committed"
                /\ op' = built
                /\ gw' = "pending"
                /\ nOps' = nOps + 1
                /\ UNCHANGED <<chain, waiting, sim, iteration, paid_out>>
opt_out_asset(trader, sent) ==
    LET call == [NoOp EXCEPT !.kind = "opt_out_asset", !.who = trader]
        uctzar_balance == Get(lp_tokens, trader)
        algo_amount == FMul(uctzar_balance, Half)
        payout_txn == Txn("ALGO", pool_account, trader, FInt(FMul(algo_amount, MicroPerAlgo)))
        opt_out_txn == Txn("UCTZAR", trader, trader, 0)
        signed_txns == process_atomic_transactions(<<payout_txn, opt_out_txn>>,
                                                   <<pool_account, trader>>)
        built == [call EXCEPT !.x = algo_amount, !.t = uctzar_balance,
                              !.legs = <<payout_txn, opt_out_txn>>, !.signed = signed_txns]
    IN  /\ CanCall
        /\ IF uctzar_balance = FZero
           THEN Refuse(call, "NoHoldings")
           ELSE IF FLt(pool_ALGO, algo_amount)
           THEN Refuse(call, "NotEnoughLiquidity")
           ELSE IF ~sent
           THEN Send(built, FALSE)
           ELSE /\ pool_ALGO' = FSub(pool_ALGO, algo_amount)
                /\ total_lp_tokens' = FSub(total_lp_tokens, uctzar_balance)
                /\ lp_tokens' = Del(lp_tokens, trader)
                /\ pc' = "Committed"
                /\ op' = built
                /\ gw' = "pending"
                /\ nOps' = nOps + 1
                /\ UNCHANGED <<pool_UCTZAR, chain, waiting, sim, iteration, paid_out>>

\* the network settles or drops a group nobody is waiting for
gateway_resolves(finalized) ==
    /\ pc = "Committed"
    /\ gw = "pending"
    /\ gw' = IF finalized THEN "finalized" ELSE "rejected"
    /\ chain' = IF finalized THEN Settled(op.legs) ELSE chain
    /\ UNCHANGED <<pool_ALGO, pool_UCTZAR, total_lp_tokens, lp_tokens, pc, op, nOps, waiting,
                   sim, iteration, paid_out>>

Next ==
    \/ \E p \in Participants, d \in Deposits, m \in MicroBalances, s \in BOOLEAN :
           add_liquidity(p, d[1], d[2], m, s)
    \/ \E m \in MicroBalances, s \in BOOLEAN : redeposit(m, s)
    \/ add_liquidity_commit
    \/ \E p \in Participants, a \in Amounts, s \in BOOLEAN : trade_algo_uctzar(p, a, s)
    \/ trade_algo_uctzar_commit
    \/ \E p \in Participants, a \in Amounts, s \in BOOLEAN : trade_uctzar_algo(p, a, s)
    \/ trade_uctzar_algo_commit
    \/ \E p \in Participants, s \in BOOLEAN : remove_liquidity(p, s)
    \/ remove_liquidity_commit
    \/ \E r \in {"rejected", "timedout"} : settlement_failed(r)
    \/ \E p \in Participants, s \in BOOLEAN : opt_out_asset(p, s)
    \/ \E f \in BOOLEAN : gateway_resolves(f)

Spec == Init /\ [][Next]_vars

\* the four methods of LiquidityPool alone, without opt_out_asset
NextPool ==
    \/ \E p \in Participants, d \in Deposits, m \in MicroBalances, s \in BOOLEAN :
           add_liquidity(p, d[1], d[2], m, s)
    \/ \E m \in MicroBalances, s \in BOOLEAN : redeposit(m, s)
    \/ add_liquidity_commit
    \/ \E p \in Participants, a \in Amounts, s \in BOOLEAN : trade_algo_uctzar(p, a, s)
    \/ trade_algo_uctzar_commit
    \/ \E p \in Participants, a \in Amounts, s \in BOOLEAN : trade_uctzar_algo(p, a, s)
    \/ trade_uctzar_algo_commit
    \/ \E p \in Participants, s \in BOOLEAN : remove_liquidity(p, s)
    \/ remove_liquidity_commit
    \/ \E r \in {"rejected", "timedout"} : settlement_failed(r)

SpecPool == Init /\ [][NextPool]_vars

(***************************************************************************)
(* Two threads on one LiquidityPool object. The methods hold no lock, and  *)
(* a thread blocked in wait_for_confirmation lets another thread run, so   *)
(* a second call can read and change the ledger before the first call's    *)
(* update.                                                                 *)
(***************************************************************************)
\* a call blocks in wait_for_confirmation and another thread gets to run
second_thread_enters ==
    /\ pc = "Submitted"
    /\ waiting = NoWaiting
    /\ waiting' = [call |-> op, read |-> ledger]
    /\ pc' = "Idle"
    /\ op' = NoOp
    /\ gw' = "none"
    /\ UNCHANGED <<pool_ALGO, pool_UCTZAR, total_lp_tokens, lp_tokens, chain, nOps,
                   sim, iteration, paid_out>>

\* wait_for_confirmation returns in the blocked thread, which goes on to the
\* update with the locals it computed before it blocked
waiting_call_commits ==
    LET c == waiting.call
        lp_token_amount == CASE c.kind = "add_liquidity" -> FAdd(c.amount, c.amount2)
                             [] c.kind = "trade_algo_uctzar" -> FAdd(c.x, c.y)
                             [] c.kind = "trade_uctzar_algo" -> FAdd(c.y, c.x)
                             [] OTHER -> FZero
        credited == Put(lp_tokens, c.who, FAdd(Get(lp_tokens, c.who), lp_token_amount))
    IN  /\ waiting # NoWaiting
        /\ CASE c.kind = "add_liquidity" ->
                    /\ pool_ALGO' = FAdd(pool_ALGO, c.amount)
                    /\ pool_UCTZAR' = FAdd(pool_UCTZAR, c.amount2)
                    /\ total_lp_tokens' = FAdd(total_lp_tokens, lp_token_amount)
                    /\ lp_tokens' = credited
             [] c.kind = "trade_algo_uctzar" ->
                    /\ pool_ALGO' = FAdd(pool_ALGO, c.x)
                    /\ pool_UCTZAR' = FSub(pool_UCTZAR, c.y)
                    /\ total_lp_tokens' = FAdd(total_lp_tokens, lp_token_amount)
                    /\ lp_tokens' = credited
             [] c.kind = "trade_uctzar_algo" ->
                    /\ pool_ALGO' = FSub(pool_ALGO, c.x)
                    /\ pool_UCTZAR' = FAdd(pool_UCTZAR, c.y)
                    /\ total_lp_tokens' = FAdd(total_lp_tokens, lp_token_amount)
                    /\ lp_tokens' = credited
             [] c.kind = "remove_liquidity" ->
                    /\ pool_ALGO' = FSub(pool_ALGO, c.x)
                    /\ pool_UCTZAR' = FSub(pool_UCTZAR, c.y)
                    /\ total_lp_tokens' = FSub(total_lp_tokens, c.t)
                    /\ lp_tokens' = Del(lp_tokens, c.who)
        /\ waiting' = NoWaiting
        /\ chain' = Settled(c.legs)
        /\ UNCHANGED <<pc, op, gw, nOps, sim, iteration, paid_out>>

\* wait_for_confirmation raises in the blocked thread
waiting_call_fails ==
    /\ waiting # NoWaiting
    /\ waiting' = NoWaiting
    /\ UNCHANGED <<pool_ALGO, pool_UCTZAR, total_lp_tokens, lp_tokens, pc, op, gw, chain, nOps,
                   sim, iteration, paid_out>>

NextOverlap ==
    \/ \E p \in Participants, d \in Deposits, m \in MicroBalances, s \in BOOLEAN :
           add_liquidity(p, d[1], d[2], m, s)
    \/ add_liquidity_commit
    \/ \E p \in Participants, a \in Amounts, s \in BOOLEAN : trade_algo_uctzar(p, a, s)
    \/ trade_algo_uctzar_commit
    \/ \E p \in Participants, a \in Amounts, s \in BOOLEAN : trade_uctzar_algo(p, a, s)
    \/ trade_uctzar_algo_commit
    \/ \E p \in Participants, s \in BOOLEAN : remove_liquidity(p, s)
    \/ remove_liquidity_commit
    \/ \E r \in {"rejected", "timedout"} : settlement_failed(r)
    \/ second_thread_enters
    \/ waiting_call_commits
    \/ waiting_call_fails

SpecOverlap == Init /\ [][NextOverlap]_vars

(***************************************************************************)
(* process_atomic_transactions on its own: any list of transactions with   *)
(* any list of accounts, of up to MaxGroup entries each.                   *)
(***************************************************************************)
GroupTxns == {Txn("ALGO", "p1", pool_account, 1), Txn("UCTZAR", pool_account, "p1", 2),
              Txn("UCTZAR", "p2", "p2", 0)}

GroupAccounts == Participants \cup {pool_account}

SeqsUpTo(S, n) == UNION {[1..k -> S] : k \in 0..n}

\* the caller keeps the list it passed and gets the list of signed transactions
sign_group(transactions, accounts) ==
    /\ pc = "Idle"
    /\ op' = [NoOp EXCEPT !.kind = "process_atomic_transactions",
                          !.legs = transactions,
                          !.signed = process_atomic_transactions(transactions, accounts)]
    /\ UNCHANGED <<pool_ALGO, pool_UCTZAR, total_lp_tokens, lp_tokens, pc, gw, chain, nOps,
                   waiting, sim, iteration, paid_out>>

NextGroup ==
    \E transactions \in SeqsUpTo(GroupTxns, MaxGroup),
       accounts \in SeqsUpTo(GroupAccounts, MaxGroup) : sign_group(transactions, accounts)

SpecGroup == Init /\ [][NextGroup]_vars

(***************************************************************************)
(* run_payment_simulation.  One pass of its while loop is one step: the    *)
(* contributions of day time_t, the payout of day time_t + 1, the prompt   *)
(* to continue once five accounts are recorded, and the move to the next   *)
(* day.  What random.choice picks, what input() returns, the balance of    *)
(* the multisig account and what the ledger gateway says of the payout are *)
(* inputs of the step.                                                     *)
(***************************************************************************)
\* what input() returns to a y/n prompt, one answer for every account asked
Answers == [AccountSet -> {"y", "n"}]

\* no prompt was shown
NotAsked == [a \in AccountSet |-> "-"]

\* what send_transaction and wait_for_confirmation make of the payout
GatewayAnswers == {"confirmed", "rejected", "timedout"}

\* the body of MultiSigTransaction.pay is one try block; its except clause
\* catches Exception, prints the error and lets the method return
CaughtByPay == {"InsufficientFundsError", "rejected", "timedout"}

reaches_caller_of_pay(e) == IF e = "none" \/ e \in CaughtByPay THEN "none" ELSE e

\* MultiSigTransaction.pay, for a multisig account holding micro microAlgos
pay(receiver, amt, micro, answer) ==
    LET called == [NoPay EXCEPT !.called = TRUE, !.receiver = receiver, !.amount = amt,
                                !.balance = check_balance(micro)]
        converted_amount == FInt(FDiv(amt, algo_conversion))
        err == IF answer = "confirmed" THEN "none" ELSE answer
    IN  IF FLt(check_balance(micro), amt)
        THEN [called EXCEPT !.err = "InsufficientFundsError",
                            !.raised = reaches_caller_of_pay("InsufficientFundsError")]
        ELSE [called EXCEPT !.txn = <<Txn("ALGO", multisig_account, receiver,
                                          converted_amount)>>,
                            !.signers = SubSeq(stokvel_accounts, 1, threshold),
                            !.gw = answer,
                            !.err = err,
                            !.raised = reaches_caller_of_pay(err)]

\* sum_ammount += amount, once for every account
RECURSIVE add_contributions(_, _)
add_contributions(s, k) ==
    IF k = 0 THEN s ELSE FAdd(add_contributions(s, k - 1), amount)

\* if i == time_t: every account pays its contribution
contribute(s) ==
    IF s.i = s.time_t
    THEN [s EXCEPT !.sum_ammount = add_contributions(@, Len(stokvel_accounts))]
    ELSE s

\* signature_ammounts after the prompts
signatures(answers) == Cardinality({a \in AccountSet : answers[a] = "y"})

\* if i == time_t + 1: the payout to the account random.choice picked
\* a variant that pays out with one signature fewer than the threshold
payout_day_one_signature_short(s, it, payout_account, answers, micro, answer) ==
    LET signature_ammounts == signatures(answers)
        picked == [it EXCEPT !.payout_account = payout_account]
        asked == [picked EXCEPT !.prompted = TRUE, !.signature_ammounts = signature_ammounts]
    IN  IF payout_account \in s.successful_payments
        THEN [sim |-> s, iteration |-> picked]
        ELSE IF signature_ammounts >= threshold - 1
        THEN [sim |-> [s EXCEPT !.successful_payments = @ \cup {payout_account},
                                !.sum_ammount = FSub(@, FMul(@, PayoutShare))],
              iteration |-> [asked EXCEPT !.pay = pay(payout_account,
                                                      FMul(s.sum_ammount, PayoutShare),
                                                      micro, answer)]]
        ELSE [sim |-> s, iteration |-> asked]
\* a variant that does not look the picked account up in successful_payments
payout_day_paying_again(s, it, payout_account, answers, micro, answer) ==
    LET signature_ammounts == signatures(answers)
        picked == [it EXCEPT !.payout_account = payout_account]
        asked == [picked EXCEPT !.prompted = TRUE, !.signature_ammounts = signature_ammounts]
    IN  IF signature_ammounts >= threshold
        THEN [sim |-> [s EXCEPT !.successful_payments = @ \cup {payout_account},
                                !.sum_ammount = FSub(@, FMul(@, PayoutShare))],
              iteration |-> [asked EXCEPT !.pay = pay(payout_account,
                                                      FMul(s.sum_ammount, PayoutShare),
                                                      micro, answer)]]
        ELSE [sim |-> s, iteration |-> asked]
payout_day(s, it, payout_account, answers, micro, answer) ==
    LET signature_ammounts == signatures(answers)
        picked == [it EXCEPT !.payout_account = payout_account]
        asked == [picked EXCEPT !.prompted = TRUE, !.signature_ammounts = signature_ammounts]
    IN  IF payout_account \in s.successful_payments
        THEN [sim |-> s, iteration |-> picked]
        ELSE IF signature_ammounts >= threshold
        THEN [sim |-> [s EXCEPT !.successful_payments = @ \cup {payout_account},
                                !.sum_ammount = FSub(@, FMul(@, PayoutShare))],
              iteration |-> [asked EXCEPT !.pay = pay(payout_account,
                                                      FMul(s.sum_ammount, PayoutShare),
                                                      micro, answer)]]
        ELSE [sim |-> s, iteration |-> asked]

\* if len(successful_payments) == 5: the first "n" stops the simulation
ask_to_continue(s, it, replies) ==
    IF Cardinality(s.successful_payments) = 5
    THEN LET said_n == \E a \in AccountSet : replies[a] = "n"
         IN  [sim |-> [s EXCEPT !.stop_simulation = said_n \/ @],
              iteration |-> [it EXCEPT !.asked_to_continue = TRUE, !.said_n = said_n]]
    ELSE [sim |-> s, iteration |-> it]

\* the end of the loop body: day 30 is followed by day 1 of the next month,
\* month 12 by month 1
\* a variant in which month 12 is followed by a month 13
next_day_without_new_year(s) ==
    LET month == IF s.i = 30 THEN [s EXCEPT !.i = 0, !.count_months = @ + 1] ELSE s
    IN  [month EXCEPT !.i = @ + 1]
next_day(s) ==
    LET month == IF s.i = 30 THEN [s EXCEPT !.i = 0, !.count_months = @ + 1] ELSE s
        year == IF month.count_months = 13 THEN [month EXCEPT !.count_months = 1] ELSE month
    IN  [year EXCEPT !.i = @ + 1]

\* while i < 31 and not stop_simulation
loop_goes_on(s) == s.i < 31 /\ ~s.stop_simulation

\* the inputs are drawn where the code asks for them: the signatures when the
\* account picked is not recorded yet, the balance and the gateway's answer
\* when pay is called, the replies when the prompt to continue is shown
simulation_day(choices, signings, balances, answers, replies) ==
    /\ loop_goes_on(sim)
    /\ LET today == [NoIteration EXCEPT !.n = iteration.n + 1, !.i = sim.i,
                                        !.count_months = sim.count_months,
                                        !.contributions = IF sim.i = sim.time_t
                                                          THEN stokvel_accounts ELSE <<>>]
           contributed == contribute(sim)
           prompts(c) ==
               payout_day(contributed, today, c, NotAsked, 0, "confirmed").iteration.prompted
           calls_pay(c, sg) ==
               payout_day(contributed, today, c, sg, 0, "confirmed").iteration.pay.called
       IN  IF sim.i = sim.time_t + 1
           THEN \E c \in choices :
                \E sg \in IF prompts(c) THEN signings ELSE {NotAsked} :
                \E m \in IF calls_pay(c, sg) THEN balances ELSE {0} :
                \E a \in IF calls_pay(c, sg) THEN answers ELSE {"none"} :
                    LET paid == payout_day(contributed, today, c, sg, m, a)
                    IN  \E r \in IF Cardinality(paid.sim.successful_payments) = 5
                                 THEN replies ELSE {NotAsked} :
                            LET last == ask_to_continue(paid.sim, paid.iteration, r)
                            IN  /\ sim' = next_day(last.sim)
                                /\ iteration' = last.iteration
                                /\ paid_out' = IF paid.iteration.pay.gw = "confirmed"
                                               THEN paid_out \cup {c} ELSE paid_out
           ELSE \E r \in IF Cardinality(contributed.successful_payments) = 5
                         THEN replies ELSE {NotAsked} :
                    LET last == ask_to_continue(contributed, today, r)
                    IN  /\ sim' = next_day(last.sim)
                        /\ iteration' = last.iteration
                        /\ paid_out' = paid_out
    /\ UNCHANGED <<pool_ALGO, pool_UCTZAR, total_lp_tokens, lp_tokens, pc, op, gw, chain,
                   nOps, waiting>>

\* main with any --time it lets through
InitYear ==
    /\ pool_ALGO = FZero
    /\ pool_UCTZAR = FZero
    /\ total_lp_tokens = FZero
    /\ lp_tokens = [a \in {} |-> FZero]
    /\ pc = "Idle"
    /\ op = NoOp
    /\ gw = "none"
    /\ chain = [algo |-> 0, uctzar |-> 0]
    /\ nOps = 0
    /\ waiting = NoWaiting
    /\ sim \in {StartOfSimulation(t) : t \in ContributionDays}
    /\ iteration = NoIteration
    /\ paid_out = {}

NextStokvel ==
    /\ iteration.n < MaxDays
    /\ simulation_day(AccountSet, Answers, MicroBalances, GatewayAnswers, Answers)

SpecStokvel == Init /\ [][NextStokvel]_vars

(***************************************************************************)
(* A year of the simulation and the month after it, with participants who  *)
(* all sign, a ledger that confirms every payout, and a random.choice that *)
(* picks the accounts in the order of the list.                            *)
(***************************************************************************)
EveryoneSigns == [a \in AccountSet |-> "y"]

InTurn ==
    LET unpaid == {k \in 1..Len(stokvel_accounts) :
                       stokvel_accounts[k] \notin sim.successful_payments}
    IN  IF unpaid = {} THEN stokvel_accounts[1]
        ELSE stokvel_accounts[CHOOSE k \in unpaid : \A j \in unpaid : k <= j]

NextYear ==
    /\ iteration.n < MaxYearDays
    /\ simulation_day({InTurn}, {EveryoneSigns}, {5000000}, {"confirmed"}, Answers)

SpecYear == InitYear /\ [][NextYear]_vars
TypeOK ==
    /\ pc \in {"Idle", "Submitted", "Committed", "Aborted"}
    /\ gw \in {"none", "pending", "finalized", "rejected", "timedout"}
    /\ DOMAIN lp_tokens \subseteq Participants
    /\ nOps \in 0..(MaxOps + 1)

(***************************************************************************)
(* Vocabulary of the properties.                                           *)
(***************************************************************************)
PoolMethods == {"add_liquidity", "trade_algo_uctzar", "trade_uctzar_algo", "remove_liquidity"}

Trades == {"trade_algo_uctzar", "trade_uctzar_algo"}

\* sum(lp_tokens.values())
RECURSIVE SumOver(_, _)
SumOver(d, keys) ==
    IF keys = {} THEN FZero
    ELSE LET k == CHOOSE a \in keys : TRUE
         IN  FAdd(SumOver(d, keys \ {k}), d[k])

SumTokens == SumOver(lp_tokens, DOMAIN lp_tokens)

\* a step in which a call is made
Called == nOps' = nOps + 1

\* a step in which the call's update of the pool's balances runs
Commits(kind) == pc = "Submitted" /\ pc' = "Committed" /\ op.kind = kind

NonNegative(f) == f.m >= 0

Positive(f) == f.m > 0

(***************************************************************************)
(* C1: when sending the settlement group or waiting for its confirmation   *)
(* fails in add_liquidity, trade_algo_uctzar, trade_uctzar_algo or         *)
(* remove_liquidity, pool_ALGO, pool_UCTZAR, total_lp_tokens and lp_tokens *)
(* are the same after the call as before it.                               *)
(***************************************************************************)
C1_FailedSettlementLeavesLedger ==
    [][(pc' = "Aborted" /\ op'.kind \in PoolMethods
        /\ op'.err \in {"SendFailed", "ConfirmationFailed"})
       => ledger' = ledger]_vars

C1_Witness ==
    /\ pc = "Aborted"
    /\ op.kind \in PoolMethods
    /\ op.err = "ConfirmationFailed"
    /\ gw = "timedout"
    /\ Positive(op.amount)
    /\ Positive(total_lp_tokens)

(***************************************************************************)
(* C2: every operation that changes the pool ledger changes it only in the *)
(* step in which the gateway reports the finality of the operation's       *)
(* group; none changes it while its group is only submitted.               *)
(***************************************************************************)
C2_LedgerChangesOnlyOnFinality ==
    [][ledger' # ledger => (gw' = "finalized" /\ gw # "finalized")]_vars

(***************************************************************************)
(* C3 (invariant I1): after every committed add_liquidity, swap or         *)
(* remove_liquidity, pool_ALGO >= 0, pool_UCTZAR >= 0 and                  *)
(* total_lp_tokens >= 0.                                                   *)
(***************************************************************************)
C3_ReservesNonNegative ==
    pc = "Committed" =>
        NonNegative(pool_ALGO) /\ NonNegative(pool_UCTZAR) /\ NonNegative(total_lp_tokens)

(***************************************************************************)
(* C4 (invariant I3): in every reachable state the sum of the values of    *)
(* lp_tokens equals total_lp_tokens.                                       *)
(***************************************************************************)
C4_TokensSumToTotal == SumTokens = total_lp_tokens

(***************************************************************************)
(* C5 (invariant I2): after every committed add_liquidity, swap or         *)
(* remove_liquidity, total_lp_tokens is 0 exactly when pool_ALGO and       *)
(* pool_UCTZAR are both 0.                                                 *)
(***************************************************************************)
C5_NoSharesIffEmpty ==
    pc = "Committed" =>
        (total_lp_tokens = FZero <=> (pool_ALGO = FZero /\ pool_UCTZAR = FZero))

(***************************************************************************)
(* C6 (invariant I4): in every reachable state no participant's entry in   *)
(* lp_tokens exceeds total_lp_tokens.                                      *)
(***************************************************************************)
C6_ShareAtMostTotal == \A p \in DOMAIN lp_tokens : FLe(lp_tokens[p], total_lp_tokens)

(***************************************************************************)
(* C7: a swap whose computed output is greater than the pool's recorded    *)
(* reserve of the output asset is refused before any leg is built or       *)
(* submitted, and leaves the ledger unchanged.                             *)
(***************************************************************************)
OutputExceedsReserve ==
    \/ op'.kind = "trade_algo_uctzar" /\ FLt(pool_UCTZAR, op'.y)
    \/ op'.kind = "trade_uctzar_algo" /\ FLt(pool_ALGO, op'.x)

C7_SwapBeyondReserveRefused ==
    [][(Called /\ OutputExceedsReserve)
       => (pc' = "Aborted" /\ op'.legs = <<>> /\ gw' = "none" /\ ledger' = ledger)]_vars

(***************************************************************************)
(* C8: add_liquidity called with an amount <= 0 and a swap called with an  *)
(* input <= 0 are aborted at once: no leg is built, no group is submitted, *)
(* and the ledger is unchanged.                                            *)
(***************************************************************************)
NonPositiveAmount ==
    \/ op'.kind = "add_liquidity" /\ (~Positive(op'.amount) \/ ~Positive(op'.amount2))
    \/ op'.kind \in Trades /\ ~Positive(op'.amount)

C8_NonPositiveAmountAborted ==
    [][(Called /\ NonPositiveAmount)
       => (pc' = "Aborted" /\ op'.legs = <<>> /\ gw' = "none" /\ ledger' = ledger)]_vars

(***************************************************************************)
(* C9: a committed add_liquidity(provider, amount_a, amount_b) adds        *)
(* amount_a to pool_ALGO, amount_b to pool_UCTZAR and amount_a + amount_b  *)
(* to total_lp_tokens and to lp_tokens[provider], for the first deposit    *)
(* and for every later one, and changes no other participant's entry.      *)
(***************************************************************************)
C9_AddLiquidityDelta ==
    [][Commits("add_liquidity")
       => /\ pool_ALGO' = FAdd(pool_ALGO, op.amount)
          /\ pool_UCTZAR' = FAdd(pool_UCTZAR, op.amount2)
          /\ total_lp_tokens' = FAdd(total_lp_tokens, FAdd(op.amount, op.amount2))
          /\ op.who \in DOMAIN lp_tokens'
          /\ lp_tokens'[op.who] = FAdd(Get(lp_tokens, op.who), FAdd(op.amount, op.amount2))
          /\ \A q \in Participants \ {op.who} :
                 /\ q \in DOMAIN lp_tokens' <=> q \in DOMAIN lp_tokens
                 /\ q \in DOMAIN lp_tokens => lp_tokens'[q] = lp_tokens[q]]_vars

\* a deposit of (0.2, 0.1) into a pool the other participant holds tokens of
C9_Witness ==
    /\ pc = "Committed"
    /\ op.kind = "add_liquidity"
    /\ op.amount = Lit(2, 10)
    /\ op.amount2 = Lit(1, 10)
    /\ DOMAIN lp_tokens = Participants
    /\ \A q \in Participants : Positive(lp_tokens[q])
    /\ pool_ALGO # FMul(Two, pool_UCTZAR)

(***************************************************************************)
(* C10: a committed swap adds the full input amount (net input plus fee)   *)
(* to the recorded reserve of the input asset and takes the output amount  *)
(* from the recorded reserve of the output asset, in both directions.      *)
(***************************************************************************)
C10_SwapReserveDelta ==
    [][/\ Commits("trade_algo_uctzar")
          => (pool_ALGO' = FAdd(pool_ALGO, op.amount) /\ pool_UCTZAR' = FSub(pool_UCTZAR, op.y))
       /\ Commits("trade_uctzar_algo")
          => (pool_UCTZAR' = FAdd(pool_UCTZAR, op.amount) /\ pool_ALGO' = FSub(pool_ALGO, op.x))]_vars

C12_FixedRateOutput ==
    LET net == FSub(op.amount, FMul(op.amount, FEE_RATE))
    IN  /\ op.kind = "trade_algo_uctzar"
           => /\ op.x = net
              /\ op.y = FMul(net, Two)
              /\ Len(op.legs) = 2 => op.legs[2].amt = FInt(FMul(op.y, CentsPerUctzar))
        /\ op.kind = "trade_uctzar_algo"
           => /\ op.y = net
              /\ op.x = FDiv(net, Two)
              /\ Len(op.legs) = 2 => op.legs[2].amt = FInt(FDiv(op.x, algo_conversion))

\* a swap of 0.2 UCTZAR has committed against reserves that are not 1 : 2
C12_Witness ==
    /\ pc = "Committed"
    /\ op.kind = "trade_uctzar_algo"
    /\ op.amount = Lit(2, 10)
    /\ Positive(op.x)
    /\ Positive(pool_ALGO)
    /\ FMul(Two, pool_ALGO) # pool_UCTZAR

(***************************************************************************)
(* C13: a committed swap adds net_input + output_amount to the trader's    *)
(* entry in lp_tokens (created from 0 when absent) and to total_lp_tokens, *)
(* in both directions, and changes no other participant's entry.           *)
(***************************************************************************)
C13_SwapMintsTokens ==
    [][(Commits("trade_algo_uctzar") \/ Commits("trade_uctzar_algo"))
       => LET net_input == IF op.kind = "trade_algo_uctzar" THEN op.x ELSE op.y
              output_amount == IF op.kind = "trade_algo_uctzar" THEN op.y ELSE op.x
              minted == FAdd(net_input, output_amount)
          IN  /\ total_lp_tokens' = FAdd(total_lp_tokens, minted)
              /\ op.who \in DOMAIN lp_tokens'
              /\ lp_tokens'[op.who] = FAdd(Get(lp_tokens, op.who), minted)
              /\ \A q \in Participants \ {op.who} :
                     /\ q \in DOMAIN lp_tokens' <=> q \in DOMAIN lp_tokens
                     /\ q \in DOMAIN lp_tokens => lp_tokens'[q] = lp_tokens[q]]_vars

\* a trader without an entry has swapped 0.1 UCTZAR in a pool of another provider
C13_Witness ==
    /\ pc = "Committed"
    /\ op.kind = "trade_uctzar_algo"
    /\ op.amount = Lit(1, 10)
    /\ DOMAIN lp_tokens = Participants
    /\ lp_tokens[op.who] = FAdd(op.y, op.x)
    /\ \E q \in Participants \ {op.who} : Positive(lp_tokens[q])

(***************************************************************************)
(* C14: the group a swap submits has exactly two legs, in this order: a    *)
(* transfer of the gross input amount of the input asset from the trader   *)
(* to the pool, then a transfer of the output amount of the output asset   *)
(* from the pool to the trader.                                            *)
(***************************************************************************)
C14_SwapLegsCarryGrossInput ==
    (op.kind \in Trades /\ gw # "none")
    => /\ Len(op.legs) = 2
       /\ op.kind = "trade_algo_uctzar"
          => /\ op.legs[1] = Txn("ALGO", op.who, pool_account,
                                 FInt(FDiv(op.amount, algo_conversion)))
             /\ op.legs[2] = Txn("UCTZAR", pool_account, op.who,
                                 FInt(FMul(op.y, CentsPerUctzar)))
       /\ op.kind = "trade_uctzar_algo"
          => /\ op.legs[1] = Txn("UCTZAR", op.who, pool_account,
                                 FInt(FMul(op.amount, CentsPerUctzar)))
             /\ op.legs[2] = Txn("ALGO", pool_account, op.who,
                                 FInt(FDiv(op.x, algo_conversion)))

(***************************************************************************)
(* C15: a committed remove_liquidity(provider) of a provider holding       *)
(* s > 0 tokens pays out (s / total_lp_tokens) * pool_ALGO and             *)
(* (s / total_lp_tokens) * pool_UCTZAR, takes exactly these payouts from   *)
(* the two reserves and s from total_lp_tokens, deletes the provider's     *)
(* entry and leaves every other entry of lp_tokens as it was.              *)
(***************************************************************************)
C15_RemoveLiquidityDelta ==
    [][(Commits("remove_liquidity") /\ Positive(Get(lp_tokens, op.who)))
       => LET s == lp_tokens[op.who]
              provider_share == FDiv(s, total_lp_tokens)
              payout_a == FMul(provider_share, pool_ALGO)
              payout_b == FMul(provider_share, pool_UCTZAR)
          IN  /\ op.legs[1] = Txn("ALGO", pool_account, op.who,
                                  FInt(FMul(payout_a, MicroPerAlgo)))
              /\ op.legs[2] = Txn("UCTZAR", pool_account, op.who,
                                  FInt(FMul(payout_b, CentsPerUctzar)))
              /\ chain' = Settled(op.legs)
              /\ pool_ALGO' = FSub(pool_ALGO, payout_a)
              /\ pool_UCTZAR' = FSub(pool_UCTZAR, payout_b)
              /\ total_lp_tokens' = FSub(total_lp_tokens, s)
              /\ op.who \notin DOMAIN lp_tokens'
              /\ \A q \in Participants \ {op.who} :
                     /\ q \in DOMAIN lp_tokens' <=> q \in DOMAIN lp_tokens
                     /\ q \in DOMAIN lp_tokens => lp_tokens'[q] = lp_tokens[q]]_vars

\* a provider holding 1.5 of 3.0 tokens has left a pool of 1.0 ALGO and
\* 2.0 UCTZAR with 0.5 ALGO and 1.0 UCTZAR; 1.5 tokens remain
C15_Witness ==
    /\ pc = "Committed"
    /\ op.kind = "remove_liquidity"
    /\ op.t = Lit(15, 10)
    /\ op.x = Lit(5, 10)
    /\ op.y = Lit(1, 1)
    /\ pool_ALGO = Lit(5, 10)
    /\ pool_UCTZAR = Lit(1, 1)
    /\ total_lp_tokens = Lit(15, 10)
    /\ DOMAIN lp_tokens = Participants \ {op.who}

(***************************************************************************)
(* C16: remove_liquidity for a participant who holds no shares (no entry   *)
(* in lp_tokens, or an entry of 0), also when total_lp_tokens is 0, fails  *)
(* with NoPosition and with no other kind of error: no leg is built,       *)
(* nothing is submitted and the ledger is unchanged.                       *)
(***************************************************************************)
C16_NoSharesIsNoPosition ==
    [][(Called /\ op'.kind = "remove_liquidity" /\ Get(lp_tokens, op'.who) = FZero)
       => /\ pc' = "Aborted"
          /\ op'.err = "NoPosition"
          /\ op'.legs = <<>>
          /\ gw' = "none"
          /\ ledger' = ledger]_vars

FAbs(x) == [m |-> Abs(x.m), e |-> x.e]

\* eight units in the last place of a significand
RoundingTolerance == Norm(1, 3 - Precision)

Close(x, y) == FLe(FAbs(FSub(x, y)), FMul(RoundingTolerance, FAbs(y)))

RedepositCommits == Commits("add_liquidity") /\ Positive(op.burned)

C18_ShareConservation ==
    [][RedepositCommits => Close(Get(lp_tokens', op.who), op.burned)]_vars

(***************************************************************************)
(* C18, amended: the add_liquidity that follows the removal at once with   *)
(* the two payouts leaves lp_tokens[provider] equal to payout_a +          *)
(* payout_b; the payouts add up to s within rounding when pool_ALGO +      *)
(* pool_UCTZAR = total_lp_tokens held before the removal.                  *)
(***************************************************************************)
C18_RedepositMintsPayoutSum ==
    [][/\ (Called /\ op'.kind = "add_liquidity" /\ Positive(op'.burned))
          => /\ pc = "Committed"
             /\ op.kind = "remove_liquidity"
             /\ op'.who = op.who
             /\ op'.amount = op.x
             /\ op'.amount2 = op.y
             /\ op'.burned = op.t
             /\ op.who \notin DOMAIN lp_tokens
       /\ RedepositCommits
          => /\ op.who \in DOMAIN lp_tokens'
             /\ lp_tokens'[op.who] = FAdd(op.amount, op.amount2)
       /\ (Commits("remove_liquidity") /\ FAdd(pool_ALGO, pool_UCTZAR) = total_lp_tokens)
          => Close(FAdd(op.x, op.y), op.t)]_vars

\* a provider has put back the payouts of a removal from a pool that another
\* provider holds tokens of, and holds as many tokens as before
C18_Witness ==
    /\ pc = "Committed"
    /\ op.kind = "add_liquidity"
    /\ Positive(op.burned)
    /\ Positive(op.amount)
    /\ Positive(op.amount2)
    /\ lp_tokens[op.who] = op.burned
    /\ \E q \in Participants \ {op.who} : Positive(Get(lp_tokens, q))

(***************************************************************************)
(* C19: every pool operation hands its group to the gateway at most once,  *)
(* in the step of its call, and then ends in exactly one of the terminal   *)
(* states Committed, with its whole delta applied, or Aborted, with no     *)
(* delta applied; after a rejected or timed-out submission the operation   *)
(* submits nothing more and its terminal state does not change.            *)
(***************************************************************************)
\* the gateway receives a group
Submits == gw' = "pending" /\ (gw # "pending" \/ op' # op)

\* the ledger after the step is the ledger before it with all of the
\* operation's updates
WholeDelta(c) ==
    LET minted == CASE c.kind = "add_liquidity" -> FAdd(c.amount, c.amount2)
                    [] c.kind = "trade_algo_uctzar" -> FAdd(c.x, c.y)
                    [] c.kind = "trade_uctzar_algo" -> FAdd(c.y, c.x)
                    [] OTHER -> FZero
        credited == Put(lp_tokens, c.who, FAdd(Get(lp_tokens, c.who), minted))
    IN  ledger' =
            CASE c.kind = "add_liquidity" ->
                     <<FAdd(pool_ALGO, c.amount), FAdd(pool_UCTZAR, c.amount2),
                       FAdd(total_lp_tokens, minted), credited>>
              [] c.kind = "trade_algo_uctzar" ->
                     <<FAdd(pool_ALGO, c.x), FSub(pool_UCTZAR, c.y),
                       FAdd(total_lp_tokens, minted), credited>>
              [] c.kind = "trade_uctzar_algo" ->
                     <<FSub(pool_ALGO, c.x), FAdd(pool_UCTZAR, c.y),
                       FAdd(total_lp_tokens, minted), credited>>
              [] c.kind = "remove_liquidity" ->
                     <<FSub(pool_ALGO, c.x), FSub(pool_UCTZAR, c.y),
                       FSub(total_lp_tokens, c.t), Del(lp_tokens, c.who)>>
              [] c.kind = "opt_out_asset" ->
                     <<FSub(pool_ALGO, c.x), pool_UCTZAR,
                       FSub(total_lp_tokens, c.t), Del(lp_tokens, c.who)>>

C19_SubmitsOnceThenTerminal ==
    [][/\ Submits => Called
       /\ Called => /\ pc' \in {"Submitted", "Committed", "Aborted"}
                    /\ pc' = "Submitted" => (gw' = "pending" /\ ledger' = ledger)
       /\ pc = "Submitted" => (~Called /\ pc' \in {"Committed", "Aborted"})
       /\ (pc' = "Aborted" /\ (pc = "Submitted" \/ Called)) => ledger' = ledger
       /\ (pc' = "Committed" /\ (pc = "Submitted" \/ Called)) => WholeDelta(op')
       /\ (pc \in {"Committed", "Aborted"} /\ ~Called)
          => (pc' = pc /\ op' = op /\ ledger' = ledger /\ gw' # "pending")]_vars

\* the group of a swap was rejected after its submission; the pool holds an
\* earlier deposit
C19_Witness ==
    /\ pc = "Aborted"
    /\ op.kind = "trade_algo_uctzar"
    /\ op.err = "ConfirmationFailed"
    /\ gw = "rejected"
    /\ Len(op.legs) = 2
    /\ Positive(total_lp_tokens)

(***************************************************************************)
(* C20: when two operations on one pool overlap, the operation that        *)
(* blocked first applies its delta only if its preconditions still hold    *)
(* against the ledger as it is when it commits: a removal pays what the    *)
(* provider's shares are worth in that ledger, a swap that the reserve     *)
(* covered when it was called is still covered, and no reserve that was    *)
(* enough for the operation when it read the ledger goes below zero.       *)
(***************************************************************************)
WaitingCommits == waiting # NoWaiting /\ waiting' = NoWaiting /\ ledger' # ledger

PreconditionsStillHold ==
    LET c == waiting.call
        provider_share == FDiv(Get(lp_tokens, c.who), total_lp_tokens)
    IN  CASE c.kind = "remove_liquidity" ->
                 /\ Get(lp_tokens, c.who) = c.t
                 /\ c.x = FMul(provider_share, pool_ALGO)
                 /\ c.y = FMul(provider_share, pool_UCTZAR)
                 /\ NonNegative(waiting.read[1]) => NonNegative(pool_ALGO')
                 /\ NonNegative(waiting.read[2]) => NonNegative(pool_UCTZAR')
          [] c.kind = "trade_algo_uctzar" ->
                 (Positive(c.y) /\ FLe(c.y, waiting.read[2]))
                 => (FLe(c.y, pool_UCTZAR) /\ NonNegative(pool_UCTZAR'))
          [] c.kind = "trade_uctzar_algo" ->
                 (Positive(c.x) /\ FLe(c.x, waiting.read[1]))
                 => (FLe(c.x, pool_ALGO) /\ NonNegative(pool_ALGO'))
          [] OTHER -> TRUE

C20_OverlapRevalidates == [][WaitingCommits => PreconditionsStillHold]_vars

(***************************************************************************)
(* C21: every pool operation that does not commit reports a failure to its *)
(* caller, so that the caller can tell from what the call hands back       *)
(* whether the ledger delta was applied.                                   *)
(***************************************************************************)
C21_FailureReachesCaller == pc = "Aborted" => caller_gets(op) # "None"

(***************************************************************************)
(* C22: whatever lists of transactions and accounts are passed to          *)
(* process_atomic_transactions, the result holds exactly one signed        *)
(* transaction per input transaction, in the order of the input, each      *)
(* with the group id of the whole ordered input list; no leg is missing    *)
(* from the group that is returned for submission.                         *)
(***************************************************************************)
C22_GroupComplete ==
    op.kind = "process_atomic_transactions"
    => /\ Len(op.signed) = Len(op.legs)
       /\ \A i \in 1..Len(op.signed) :
              /\ op.signed[i].txn = op.legs[i]
              /\ op.signed[i].group = op.legs

(***************************************************************************)
(* C23: in every group that add_liquidity, trade_algo_uctzar,              *)
(* trade_uctzar_algo, remove_liquidity or opt_out_asset hands to the       *)
(* gateway, every leg is signed with the key of the account that is the    *)
(* leg's sender, and all legs of the group are signed when the group is    *)
(* handed over in its one request.                                         *)
(***************************************************************************)
C23_LegsSignedBySender ==
    (gw # "none" /\ op.kind \in PoolMethods \cup {"opt_out_asset"})
    => /\ Len(op.legs) = 2
       /\ Len(op.signed) = Len(op.legs)
       /\ \A i \in 1..Len(op.legs) :
              /\ op.signed[i].txn = op.legs[i]
              /\ op.signed[i].group = op.legs
              /\ op.signed[i].key = op.legs[i].sender

\* opt_out_asset has sent its group: the pool's payout and the trader's opt-out
C23_Witness ==
    /\ pc = "Committed"
    /\ op.kind = "opt_out_asset"
    /\ gw = "pending"
    /\ op.signed[1].key = pool_account
    /\ op.signed[2].key = op.who
    /\ op.legs[2].sender = op.who

(***************************************************************************)
(* C28: opt_out_asset called for a participant without an entry in         *)
(* lp_tokens or with an entry of 0, or whose payout of 0.5 ALGO per LP     *)
(* token is more than pool_ALGO, builds and submits no transaction and     *)
(* leaves pool_ALGO, pool_UCTZAR, total_lp_tokens and lp_tokens unchanged. *)
(***************************************************************************)
OptOutGuarded ==
    \/ Get(lp_tokens, op'.who) = FZero
    \/ FLt(pool_ALGO, FMul(Get(lp_tokens, op'.who), Half))

C28_GuardedOptOutDoesNothing ==
    [][(Called /\ op'.kind = "opt_out_asset" /\ OptOutGuarded)
       => /\ pc' = "Aborted"
          /\ op'.legs = <<>>
          /\ op'.signed = <<>>
          /\ gw' = "none"
          /\ chain' = chain
          /\ ledger' = ledger]_vars

\* a holder of LP tokens worth more ALGO than the pool has was turned away
C28_Witness ==
    /\ pc = "Aborted"
    /\ op.kind = "opt_out_asset"
    /\ op.err = "NotEnoughLiquidity"
    /\ Positive(lp_tokens[op.who])
    /\ Positive(pool_ALGO)
    /\ FLt(pool_ALGO, FMul(lp_tokens[op.who], Half))

(***************************************************************************)
(* C29: an opt_out_asset that passes its guards and sends its group takes  *)
(* 0.5 * lp_tokens[participant] from pool_ALGO and lp_tokens[participant]  *)
(* from total_lp_tokens, deletes the participant's entry and leaves        *)
(* pool_UCTZAR and the other entries as they were; pool_ALGO does not      *)
(* become negative when it was not negative before the call.               *)
(***************************************************************************)
C29_OptOutDelta ==
    [][(Called /\ op'.kind = "opt_out_asset" /\ ~OptOutGuarded)
       => \/ pc' = "Aborted" /\ op'.err = "SendFailed" /\ ledger' = ledger
          \/ /\ pc' = "Committed"
             /\ pool_ALGO' = FSub(pool_ALGO, FMul(lp_tokens[op'.who], Half))
             /\ total_lp_tokens' = FSub(total_lp_tokens, lp_tokens[op'.who])
             /\ pool_UCTZAR' = pool_UCTZAR
             /\ lp_tokens' = Del(lp_tokens, op'.who)
             /\ NonNegative(pool_ALGO) => NonNegative(pool_ALGO')]_vars

\* one of two holders has opted out and left the other's tokens in the pool
C29_Witness ==
    /\ pc = "Committed"
    /\ op.kind = "opt_out_asset"
    /\ Positive(op.t)
    /\ op.x = FMul(op.t, Half)
    /\ op.who \notin DOMAIN lp_tokens
    /\ \E q \in Participants \ {op.who} : Positive(Get(lp_tokens, q))
    /\ Positive(pool_UCTZAR)

(***************************************************************************)
(* C30, as claimed: a committed remove_liquidity keeps the reserve per LP  *)
(* token of both assets (pool_ALGO' * total_lp_tokens = pool_ALGO *        *)
(* total_lp_tokens', and the same for pool_UCTZAR), so what a provider who *)
(* stays is paid on withdrawing is the same before and after another       *)
(* provider's withdrawal: the payouts do not depend on the order.          *)
(***************************************************************************)
\* what remove_liquidity pays for tokens out of a reserve
PayoutOf(tokens, total, reserve) == FMul(FDiv(tokens, total), reserve)

C30_RemovalKeepsRatio ==
    [][Commits("remove_liquidity")
       => /\ FMul(pool_ALGO', total_lp_tokens) = FMul(pool_ALGO, total_lp_tokens')
          /\ FMul(pool_UCTZAR', total_lp_tokens) = FMul(pool_UCTZAR, total_lp_tokens')
          /\ \A q \in DOMAIN lp_tokens' :
                 /\ PayoutOf(lp_tokens'[q], total_lp_tokens', pool_ALGO')
                    = PayoutOf(lp_tokens[q], total_lp_tokens, pool_ALGO)
                 /\ PayoutOf(lp_tokens'[q], total_lp_tokens', pool_UCTZAR')
                    = PayoutOf(lp_tokens[q], total_lp_tokens, pool_UCTZAR)]_vars

(***************************************************************************)
(* C30, amended: a committed remove_liquidity keeps the reserve per LP     *)
(* token of both assets to within the rounding of the float operations,    *)
(* and what a provider who stays is paid on withdrawing differs before and *)
(* after another provider's withdrawal by no more than that rounding,      *)
(* measured against the reserve.                                           *)
(***************************************************************************)
Near(x, y, scale) == FLe(FAbs(FSub(x, y)), FMul(RoundingTolerance, FAbs(scale)))

C30_RemovalKeepsRatioWithinRounding ==
    [][Commits("remove_liquidity")
       => /\ Near(FMul(pool_ALGO', total_lp_tokens), FMul(pool_ALGO, total_lp_tokens'),
                  FMul(pool_ALGO, total_lp_tokens))
          /\ Near(FMul(pool_UCTZAR', total_lp_tokens), FMul(pool_UCTZAR, total_lp_tokens'),
                  FMul(pool_UCTZAR, total_lp_tokens))
          /\ \A q \in DOMAIN lp_tokens' :
                 /\ Near(PayoutOf(lp_tokens'[q], total_lp_tokens', pool_ALGO'),
                         PayoutOf(lp_tokens[q], total_lp_tokens, pool_ALGO), pool_ALGO)
                 /\ Near(PayoutOf(lp_tokens'[q], total_lp_tokens', pool_UCTZAR'),
                         PayoutOf(lp_tokens[q], total_lp_tokens, pool_UCTZAR),
                         pool_UCTZAR)]_vars

\* a provider has withdrawn after a swap and another provider stays in a pool
\* whose reserves are no longer 1 : 2
C30_Witness ==
    /\ pc = "Committed"
    /\ op.kind = "remove_liquidity"
    /\ Positive(op.x)
    /\ Positive(op.y)
    /\ \E q \in DOMAIN lp_tokens : Positive(lp_tokens[q])
    /\ Positive(pool_ALGO)
    /\ Positive(pool_UCTZAR)
    /\ FMul(Two, op.x) # op.y

(***************************************************************************)
(* The stokvel simulation.                                                 *)
(***************************************************************************)
\* a pass of the loop of run_payment_simulation
SimulationStep == iteration'.n = iteration.n + 1

\* C24: a payout is issued on a payout day only with at least
\* round(0.8 * 5) = 4 answers of "y"; with fewer, no payout transaction is
\* built and sum_ammount and successful_payments stay as they were
C24_PayoutNeedsThreshold ==
    [][SimulationStep =>
         /\ threshold = 4
         /\ iteration'.pay.called =>
                /\ iteration'.prompted
                /\ iteration'.signature_ammounts >= 4
         /\ (iteration'.prompted /\ iteration'.signature_ammounts < 4) =>
                /\ ~iteration'.pay.called
                /\ iteration'.pay.txn = <<>>
                /\ sim'.sum_ammount = sim.sum_ammount
                /\ sim'.successful_payments = sim.successful_payments]_vars

\* three of the five signed on a payout day with contributions in the fund,
\* and nothing was paid
C24_Witness ==
    /\ iteration.prompted
    /\ iteration.signature_ammounts = 3
    /\ ~iteration.pay.called
    /\ sim.sum_ammount # FZero
    /\ iteration.payout_account \notin sim.successful_payments

\* C25: the loop ends only when all five accounts are recorded, all five
\* have been paid, and a participant has answered "n" to the prompt
C25_StopsOnlyWhenAllPaid ==
    ~loop_goes_on(sim) =>
        /\ sim.successful_payments = AccountSet
        /\ iteration.asked_to_continue
        /\ iteration.said_n
        /\ paid_out = AccountSet

\* the day and the month that follow day d of month m
DayAfter(d) == IF d = 30 THEN 1 ELSE d + 1

MonthAfter(d, m) == IF d < 30 THEN m ELSE IF m = 12 THEN 1 ELSE m + 1

\* sum_ammount after five contributions of 0.5
FiveContributions(s) ==
    FAdd(FAdd(FAdd(FAdd(FAdd(s, Lit(5, 10)), Lit(5, 10)), Lit(5, 10)), Lit(5, 10)), Lit(5, 10))

\* C26: for every time_t in 1..29 the days follow one another through every
\* month of 30 days and every year of 12 months; all accounts contribute on
\* day time_t and on no other day; a payout account is picked only on day
\* time_t + 1, the day after the contributions of the same month
C26_Calendar ==
    [][SimulationStep =>
         /\ sim.time_t \in 1..29
         /\ sim'.time_t = sim.time_t
         /\ iteration'.i = sim.i
         /\ iteration'.count_months = sim.count_months
         /\ sim'.i = DayAfter(sim.i)
         /\ sim'.count_months = MonthAfter(sim.i, sim.count_months)
         /\ iteration'.contributions =
                (IF sim.i = sim.time_t THEN stokvel_accounts ELSE <<>>)
         /\ (sim.i = sim.time_t) =>
                sim'.sum_ammount =
                    FiveContributions(sim.sum_ammount)
         /\ iteration'.payout_account # "none" =>
                /\ sim.i = sim.time_t + 1
                /\ iteration.i = sim.time_t
                /\ iteration.count_months = sim.count_months
                /\ iteration.contributions = stokvel_accounts]_vars

\* the simulation has gone from day 30 of month 12 to day 1 of month 1, and
\* on that last day of the year an account was picked for the payout
C26_Witness ==
    /\ sim.time_t = 29
    /\ iteration.i = 30
    /\ iteration.count_months = 12
    /\ iteration.payout_account # "none"
    /\ sim.i = 1
    /\ sim.count_months = 1

\* C27: when the multisig account holds less than the amount, pay raises
\* InsufficientFundsError to its caller and builds no transaction
C27_InsufficientFundsRaised ==
    (iteration.pay.called /\ FLt(iteration.pay.balance, iteration.pay.amount)) =>
        /\ iteration.pay.raised = "InsufficientFundsError"
        /\ iteration.pay.txn = <<>>
        /\ iteration.pay.gw = "none"

\* C32: no account is paid twice: pay is never called for an account that
\* is already in successful_payments, no payout is confirmed to an account
\* that had one, and successful_payments never loses an address
C32_PaidAtMostOnce ==
    [][SimulationStep =>
         /\ sim.successful_payments \subseteq sim'.successful_payments
         /\ iteration'.pay.called =>
                /\ iteration'.pay.receiver = iteration'.payout_account
                /\ iteration'.pay.receiver \notin sim.successful_payments
                /\ iteration'.pay.receiver \notin paid_out
         /\ \A a \in sim.successful_payments :
                \A k \in 1..Len(iteration'.pay.txn) : iteration'.pay.txn[k].receiver # a]_vars

\* random.choice picked an account that had received its payout, with
\* contributions in the fund, and the pass went by without a prompt or a payout
C32_Witness ==
    /\ iteration.payout_account \in paid_out
    /\ ~iteration.prompted
    /\ ~iteration.pay.called
    /\ sim.sum_ammount # FZero
    /\ sim.successful_payments # AccountSet

\* C33: an address is added to successful_payments and sum_ammount is
\* reduced only when the payout was sent and confirmed; a payout that fails
\* inside pay leaves both as they were
C33_RecordedOnlyWhenConfirmed ==
    [][SimulationStep =>
         /\ sim'.successful_payments # sim.successful_payments =>
                iteration'.pay.gw = "confirmed"
         /\ (iteration'.pay.called /\ iteration'.pay.gw # "confirmed") =>
                /\ sim'.successful_payments = sim.successful_payments
                /\ sim'.sum_ammount = sim.sum_ammount]_vars

\* a step in which any of the calls updates the pool's balances
CommitsAny == pc = "Submitted" /\ pc' = "Committed"

\* the change a committed call makes to a recorded reserve, in the smallest
\* unit of the asset as the call itself converts it, signed into the pool
RecordedMicroAlgo(c) ==
    CASE c.kind = "add_liquidity" -> FDiv(c.amount, algo_conversion)
      [] c.kind = "trade_algo_uctzar" -> FDiv(c.x, algo_conversion)
      [] c.kind = "trade_uctzar_algo" -> FNeg(FDiv(c.x, algo_conversion))
      [] c.kind = "remove_liquidity" -> FNeg(FMul(c.x, MicroPerAlgo))
      [] OTHER -> FZero

RecordedCents(c) ==
    CASE c.kind = "add_liquidity" -> FMul(c.amount2, CentsPerUctzar)
      [] c.kind = "trade_algo_uctzar" -> FNeg(FMul(c.y, CentsPerUctzar))
      [] c.kind = "trade_uctzar_algo" -> FMul(c.y, CentsPerUctzar)
      [] c.kind = "remove_liquidity" -> FNeg(FMul(c.y, CentsPerUctzar))
      [] OTHER -> FZero

\* the call has positive amounts and, for a swap, an output the recorded
\* reserve covers
CoveredByReserves(c) ==
    CASE c.kind = "add_liquidity" -> Positive(c.amount) /\ Positive(c.amount2)
      [] c.kind = "trade_algo_uctzar" -> Positive(c.amount) /\ FLe(c.y, pool_UCTZAR)
      [] c.kind = "trade_uctzar_algo" -> Positive(c.amount) /\ FLe(c.x, pool_ALGO)
      [] c.kind = "remove_liquidity" -> Positive(c.t)
      [] OTHER -> FALSE

\* C31: in every committed add_liquidity, swap and remove_liquidity the
\* change of each recorded reserve, in smallest units (1e-6 ALGO, 1e-2
\* UCTZAR), is the net number of units the legs of the group move into the
\* pool account, and so is what the external ledger finalizes
C31_ReservesFollowLegs ==
    [][(CommitsAny /\ CoveredByReserves(op))
       => /\ chain'.algo - chain.algo = NetIn(op.legs, "ALGO")
          /\ chain'.uctzar - chain.uctzar = NetIn(op.legs, "UCTZAR")
          /\ RecordedMicroAlgo(op) = Norm(NetIn(op.legs, "ALGO"), 0)
          /\ RecordedCents(op) = Norm(NetIn(op.legs, "UCTZAR"), 0)]_vars

====
